---- MODULE Spec2Model ----
(***************************************************************************)
(* Model of butterfly/boundarycondition.py: the BoundaryCondition base     *)
(* record, its eleven specializations, the field setters, tryGetField and  *)
(* duplicate().                                                            *)
(*                                                                         *)
(* Python values are records tagged by k ("None", "int", "str", "dict",    *)
(* "list", "tuple", "Field").  A string is its sequence of characters.  A  *)
(* Field object carries its class (ftype), its constructor arguments as    *)
(* written in the source (args) and its object identity (oid); oid 0 is    *)
(* an object owned by the caller.                                          *)
(***************************************************************************)
EXTENDS Integers, Sequences, FiniteSets, TLC

VARIABLES heap, handles, last, nextOid, nsets

vars == <<heap, handles, last, nextOid, nsets>>

\* ---------------------------------------------------------------- bounds
\* Keyword field arguments a constructor call supplies at most.
MaxArgs == 1
\* Records alive at most (the constructed one and its duplicates).
MaxRecs == 2
\* Attribute reassignments on constructed records at most.
MaxSets == 1

\* ---------------------------------------------------------------- values
NoneV == [k |-> "None"]

IntV(n) == [k |-> "int", v |-> n]

StrV(cs) == [k |-> "str", chars |-> cs]

DictV(kvs) == [k |-> "dict", items |-> kvs]

ListV(es) == [k |-> "list", elems |-> es]

TupleV(es) == [k |-> "tuple", elems |-> es]

Field(ftype, args, oid) == [k |-> "Field", ftype |-> ftype, args |-> args, oid |-> oid]

\* The field slots in the order BoundaryCondition.__init__ assigns them.
Slots == <<"T", "U", "p", "k", "epsilon", "nut", "alphat", "p_rgh">>

SlotSet == {Slots[i] : i \in DOMAIN Slots}

SlotIdx(s) == CHOOSE i \in DOMAIN Slots : Slots[i] = s

\* Python truth value of x, as `x or default` and `not x` test it.
Truthy(x) ==
    CASE x.k = "None" -> FALSE
      [] x.k = "int" -> x.v # 0
      [] x.k = "str" -> x.chars # <<>>
      [] x.k = "dict" -> x.items # <<>>
      [] x.k \in {"list", "tuple"} -> x.elems # <<>>
      [] OTHER -> TRUE

\* ---------------------------------------------------------------- errors
NoExc == [type |-> "", site |-> "", arg |-> NoneV]

Exc(type, site, arg) == [type |-> type, site |-> site, arg |-> arg]

NoField == Field("", <<>>, 0)

Ok(v) == [ok |-> TRUE, val |-> v, exc |-> NoExc]

Raise(e) == [ok |-> FALSE, val |-> NoField, exc |-> e]

\* ---------------------------------------------------------------- fields module
ZeroGradient(oid) == Field("ZeroGradient", <<>>, oid)

Empty(oid) == Field("Empty", <<>>, oid)

Slip(oid) == Field("Slip", <<>>, oid)

FixedValue(v, oid) == Field("FixedValue", <<v>>, oid)

Calculated(v, oid) == Field("Calculated", <<v>>, oid)

KqRWallFunction(a, oid) == Field("KqRWallFunction", a, oid)

EpsilonWallFunction(a, oid) == Field("EpsilonWallFunction", a, oid)

NutkWallFunction(a, oid) == Field("NutkWallFunction", a, oid)

InletOutlet(a, oid) == Field("InletOutlet", a, oid)

AlphatJayatillekeWallFunction(a, oid) == Field("AlphatJayatillekeWallFunction", a, oid)

FixedFluxPressure(a, oid) == Field("FixedFluxPressure", a, oid)

FromABLConditions(ftype, abl, extra, oid) ==
    Field(ftype, <<"fromABLConditions", abl>> \o extra, oid)

RECURSIVE Flatten(_)
Flatten(kvs) ==
    IF kvs = <<>> THEN <<>> ELSE <<kvs[1][1], kvs[1][2]>> \o Flatten(Tail(kvs))

\* A mapping selects the Field variant by its "type" key.
WellFormedDict(d) == \E i \in DOMAIN d.items : d.items[i][1] = "type"

\* Field.fromDict: a Field built from the mapping, or the collaborator's
\* own exception for a mapping no Field can be built from.
FromDict(d, oid) ==
    IF WellFormedDict(d)
    THEN Ok(Field("Field", <<"fromDict">> \o Flatten(d.items), oid))
    ELSE Raise(Exc("Exception", "Field.fromDict", d))

\* The field expressions Field.fromString parses.
FieldWords == {<<"s", "l", "i", "p">>}

\* Field.fromString: a Field parsed from the text, or the parser's exception
\* for anything that is no field expression (or no string at all).
FromString(s, oid) ==
    IF s.k = "str" /\ s.chars \in FieldWords
    THEN Ok(Field("Field", <<"fromString">> \o s.chars, oid))
    ELSE Raise(Exc("Exception", "Field.fromString", s))

\* ---------------------------------------------------------------- int()
Digits == <<"0", "1", "2", "3", "4", "5", "6", "7", "8", "9">>

IsDigit(c) == \E i \in DOMAIN Digits : Digits[i] = c

DigitVal(c) == (CHOOSE i \in DOMAIN Digits : Digits[i] = c) - 1

RECURSIVE ParseDigits(_, _)
ParseDigits(cs, acc) ==
    IF cs = <<>> THEN acc ELSE ParseDigits(Tail(cs), acc * 10 + DigitVal(cs[1]))

NoInt == [ok |-> TRUE, n |-> 0, exc |-> NoExc]

\* Python int(v) for the element kinds the inputs hold.
PyInt(v) ==
    CASE v.k = "int" -> [NoInt EXCEPT !.n = v.v]
      [] v.k = "str" ->
           IF v.chars # <<>> /\ \A i \in DOMAIN v.chars : IsDigit(v.chars[i])
           THEN [NoInt EXCEPT !.n = ParseDigits(v.chars, 0)]
           ELSE [NoInt EXCEPT !.ok = FALSE, !.exc = Exc("ValueError", "int", v)]
      [] OTHER -> [NoInt EXCEPT !.ok = FALSE, !.exc = Exc("TypeError", "int", v)]

Iterable(x) == x.k \in {"list", "tuple", "str"}

\* What `for v in x` yields.
Elements(x) ==
    CASE x.k \in {"list", "tuple"} -> x.elems
      [] x.k = "str" -> [i \in DOMAIN x.chars |-> StrV(<<x.chars[i]>>)]
      [] OTHER -> <<>>

\* ---------------------------------------------------------------- BoundaryCondition
NoLevels == [ok |-> TRUE, val |-> <<>>, exc |-> NoExc]

\* Index of the first element int() rejects, 0 when there is none.
FirstBad(es) ==
    IF \E i \in DOMAIN es : ~PyInt(es[i]).ok
    THEN CHOOSE i \in DOMAIN es :
             /\ ~PyInt(es[i]).ok
             /\ \A j \in DOMAIN es : j < i => PyInt(es[j]).ok
    ELSE 0

\* Faulty variant of RefLevelsOf: an input that cannot be coerced falls back
\* to (1, 1) instead of raising.
RefLevelsOf_Lenient(refLevels) ==
    IF Truthy(refLevels) /\ Iterable(refLevels) /\ FirstBad(Elements(refLevels)) = 0
    THEN [NoLevels EXCEPT !.val = [i \in DOMAIN Elements(refLevels) |->
                                       PyInt(Elements(refLevels)[i]).n]]
    ELSE [NoLevels EXCEPT !.val = <<1, 1>>]

\* (1, 1) if not refLevels else tuple(int(v) for v in refLevels)
RefLevelsOf(refLevels) ==
    IF ~Truthy(refLevels)
    THEN [NoLevels EXCEPT !.val = <<1, 1>>]
    ELSE IF ~Iterable(refLevels)
    THEN [NoLevels EXCEPT !.ok = FALSE, !.exc = Exc("TypeError", "iter", refLevels)]
    ELSE LET es == Elements(refLevels)
             b == FirstBad(es)
         IN IF b # 0
            THEN [NoLevels EXCEPT !.ok = FALSE, !.exc = PyInt(es[b]).exc]
            ELSE [NoLevels EXCEPT !.val = [i \in DOMAIN es |-> PyInt(es[i]).n]]

\* Faulty variant of tryGetField: what is no mapping is returned as it is.
TryGetField_Raw(f, oid) ==
    IF f.k = "dict" THEN FromDict(f, oid) ELSE Ok(f)

\* tryGetField: a Field as it is, a mapping through Field.fromDict, anything
\* else through Field.fromString, whose failure becomes the ValueError.
TryGetField(f, oid) ==
    IF f.k = "Field"
    THEN Ok(f)
    ELSE IF f.k = "dict"
    THEN FromDict(f, oid)
    ELSE IF FromString(f, oid).ok
    THEN FromString(f, oid)
    ELSE Raise(Exc("ValueError", "tryGetField", f))

\* The value a field setter stores: tryGetField(x or ZeroGradient()).
FieldSetter(x, oid) ==
    TryGetField(IF Truthy(x) THEN x ELSE ZeroGradient(oid), oid)

NoRec == [cls |-> "", type |-> "", refLevels |-> <<>>, f |-> [s \in SlotSet |-> NoField]]

Built(rec) == [ok |-> TRUE, rec |-> rec, exc |-> NoExc]

Failed(e) == [ok |-> FALSE, rec |-> NoRec, exc |-> e]

\* Faulty variant of SetSlot: the slot is reset before the coercion runs, so
\* a raising setter leaves a fresh zero-gradient behind.
SetSlot_AssignFirst(rec, s, x, oid) ==
    IF FieldSetter(x, oid).ok
    THEN [ok |-> TRUE, rec |-> [rec EXCEPT !.f[s] = FieldSetter(x, oid).val], exc |-> NoExc]
    ELSE [ok |-> FALSE, rec |-> [rec EXCEPT !.f[s] = ZeroGradient(oid)],
          exc |-> FieldSetter(x, oid).exc]

\* record.<s> = x on a constructed record: the record afterwards and the
\* exception, if any.  The slot is assigned only after the coercion returned.
SetSlot(rec, s, x, oid) ==
    LET r == FieldSetter(x, oid)
    IN IF r.ok
       THEN [ok |-> TRUE, rec |-> [rec EXCEPT !.f[s] = r.val], exc |-> NoExc]
       ELSE [ok |-> FALSE, rec |-> rec, exc |-> r.exc]

\* First slot, in assignment order, whose setter raises; 0 when none does.
FirstFailing(a, oid) ==
    IF \E i \in DOMAIN Slots : ~FieldSetter(a[Slots[i]], oid + i - 1).ok
    THEN CHOOSE i \in DOMAIN Slots :
             /\ ~FieldSetter(a[Slots[i]], oid + i - 1).ok
             /\ \A j \in DOMAIN Slots : j < i => FieldSetter(a[Slots[j]], oid + j - 1).ok
    ELSE 0

\* BoundaryCondition.__init__ run on an instance of class cls: type, then
\* refLevels, then the eight setters in order; the first exception aborts.
BaseInit(cls, bcType, refLevels, a, oid) ==
    LET rl == RefLevelsOf(refLevels)
        b == FirstFailing(a, oid)
    IN IF ~rl.ok
       THEN Failed(rl.exc)
       ELSE IF b # 0
       THEN Failed(FieldSetter(a[Slots[b]], oid + b - 1).exc)
       ELSE Built([cls |-> cls, type |-> bcType, refLevels |-> rl.val,
                   f |-> [s \in SlotSet |-> FieldSetter(a[s], oid + SlotIdx(s) - 1).val]])

\* x or d
Or(x, d) == IF Truthy(x) THEN x ELSE d

AllNone == [s \in SlotSet |-> NoneV]

\* Identity of the object a constructor call at oid creates for slot s.
At(oid, s) == oid + SlotIdx(s) - 1

\* ---------------------------------------------------------------- specializations
\* Faulty variant of BoundingBoxInit: the caller's refLevels is passed on.
BoundingBoxInit_Forward(refLevels, oid) ==
    BaseInit("BoundingBoxBoundaryCondition", "wall", refLevels,
             [s \in SlotSet |-> ZeroGradient(At(oid, s))], oid)

\* BoundingBoxBoundaryCondition.__init__: refLevels = None, every field
\* ZeroGradient().
BoundingBoxInit(refLevels, oid) ==
    BaseInit("BoundingBoxBoundaryCondition", "wall", NoneV,
             [s \in SlotSet |-> ZeroGradient(At(oid, s))], oid)

\* EmptyBoundaryCondition.__init__: refLevels = None, every field Empty().
EmptyInit(refLevels, oid) ==
    BaseInit("EmptyBoundaryCondition", "wall", NoneV,
             [s \in SlotSet |-> Empty(At(oid, s))], oid)

\* Faulty variant of IndoorWallInit: k and epsilon default as a fixed inlet's.
IndoorWallInit_InletDefaults(refLevels, a, oid) ==
    BaseInit("IndoorWallBoundaryCondition", "wall", refLevels,
        [T |-> Or(a.T, ZeroGradient(At(oid, "T"))),
         U |-> Or(a.U, FixedValue("'(0 0 0)'", At(oid, "U"))),
         p |-> Or(a.p, ZeroGradient(At(oid, "p"))),
         k |-> Or(a.k, FixedValue("'0.1'", At(oid, "k"))),
         epsilon |-> Or(a.epsilon, FixedValue("'0.01'", At(oid, "epsilon"))),
         nut |-> Or(a.nut, NutkWallFunction(<<"0.01">>, At(oid, "nut"))),
         alphat |-> Or(a.alphat, AlphatJayatillekeWallFunction(
                        <<"value='0'", "isUniform=True", "Prt='0.85'">>, At(oid, "alphat"))),
         p_rgh |-> Or(a.p_rgh, FixedFluxPressure(
                        <<"value='0'", "isUniform=True", "rho='rhok'">>, At(oid, "p_rgh")))],
        oid)

\* The constructors below: each field argument `or` its default, then the
\* base constructor.  A field the constructor overwrites or does not forward
\* ignores the caller's argument.
IndoorWallInit(refLevels, a, oid) ==
    BaseInit("IndoorWallBoundaryCondition", "wall", refLevels,
        [T |-> Or(a.T, ZeroGradient(At(oid, "T"))),
         U |-> Or(a.U, FixedValue("'(0 0 0)'", At(oid, "U"))),
         p |-> Or(a.p, ZeroGradient(At(oid, "p"))),
         k |-> Or(a.k, KqRWallFunction(<<"'0.1'">>, At(oid, "k"))),
         epsilon |-> Or(a.epsilon, EpsilonWallFunction(<<"0.01">>, At(oid, "epsilon"))),
         nut |-> Or(a.nut, NutkWallFunction(<<"0.01">>, At(oid, "nut"))),
         alphat |-> Or(a.alphat, AlphatJayatillekeWallFunction(
                        <<"value='0'", "isUniform=True", "Prt='0.85'">>, At(oid, "alphat"))),
         p_rgh |-> Or(a.p_rgh, FixedFluxPressure(
                        <<"value='0'", "isUniform=True", "rho='rhok'">>, At(oid, "p_rgh")))],
        oid)

FixedInletInit(refLevels, a, oid) ==
    BaseInit("FixedInletBoundaryCondition", "patch", refLevels,
        [T |-> IF Truthy(a.T) THEN a.T ELSE NoneV,
         U |-> Or(a.U, FixedValue("'(0 0 0)'", At(oid, "U"))),
         p |-> Or(a.p, ZeroGradient(At(oid, "p"))),
         k |-> Or(a.k, FixedValue("'0.1'", At(oid, "k"))),
         epsilon |-> Or(a.epsilon, FixedValue("'0.01'", At(oid, "epsilon"))),
         nut |-> Calculated("'0'", At(oid, "nut")),
         alphat |-> ZeroGradient(At(oid, "alphat")),
         p_rgh |-> ZeroGradient(At(oid, "p_rgh"))],
        oid)

FixedOutletInit(refLevels, a, oid) ==
    BaseInit("FixedOutletBoundaryCondition", "patch", refLevels,
        [T |-> Or(a.T, ZeroGradient(At(oid, "T"))),
         U |-> Or(a.U, ZeroGradient(At(oid, "U"))),
         p |-> Or(a.p, FixedValue("'0'", At(oid, "p"))),
         k |-> Or(a.k, ZeroGradient(At(oid, "k"))),
         epsilon |-> Or(a.epsilon, ZeroGradient(At(oid, "epsilon"))),
         nut |-> Calculated("'0'", At(oid, "nut")),
         alphat |-> ZeroGradient(At(oid, "alphat")),
         p_rgh |-> ZeroGradient(At(oid, "p_rgh"))],
        oid)

WindTunnelWallInit(refLevels, a, oid) ==
    BaseInit("WindTunnelWallBoundaryCondition", "wall", refLevels,
        [T |-> Or(a.T, ZeroGradient(At(oid, "T"))),
         U |-> Or(a.U, FixedValue("'(0 0 0)'", At(oid, "U"))),
         p |-> Or(a.p, ZeroGradient(At(oid, "p"))),
         k |-> Or(a.k, KqRWallFunction(<<"'$internalField'", "isUnifrom=False">>,
                                       At(oid, "k"))),
         epsilon |-> Or(a.epsilon, EpsilonWallFunction(
                         <<"'$internalField'", "isUnifrom=False">>, At(oid, "epsilon"))),
         nut |-> Or(a.nut, NutkWallFunction(<<"'0.0'">>, At(oid, "nut"))),
         alphat |-> NoneV,
         p_rgh |-> NoneV],
        oid)

WindTunnelGroundInit(abl, refLevels, a, oid) ==
    BaseInit("WindTunnelGroundBoundaryCondition", "wall", refLevels,
        [T |-> Or(a.T, ZeroGradient(At(oid, "T"))),
         U |-> Or(a.U, FixedValue("'(0 0 0)'", At(oid, "U"))),
         p |-> Or(a.p, ZeroGradient(At(oid, "p"))),
         k |-> Or(a.k, ZeroGradient(At(oid, "k"))),
         epsilon |-> Or(a.epsilon, ZeroGradient(At(oid, "epsilon"))),
         nut |-> FromABLConditions("NutkAtmRoughWallFunction", abl, <<"'uniform 0'">>,
                                   At(oid, "nut")),
         alphat |-> NoneV,
         p_rgh |-> NoneV],
        oid)

WindTunnelInletInit(abl, refLevels, a, oid) ==
    BaseInit("WindTunnelInletBoundaryCondition", "patch", refLevels,
        [T |-> Or(a.T, ZeroGradient(At(oid, "T"))),
         U |-> FromABLConditions("AtmBoundaryLayerInletVelocity", abl, <<>>, At(oid, "U")),
         p |-> Or(a.p, ZeroGradient(At(oid, "p"))),
         k |-> FromABLConditions("AtmBoundaryLayerInletK", abl, <<>>, At(oid, "k")),
         epsilon |-> FromABLConditions("AtmBoundaryLayerInletEpsilon", abl, <<>>,
                                       At(oid, "epsilon")),
         nut |-> Or(a.nut, Calculated("'0'", At(oid, "nut"))),
         alphat |-> NoneV,
         p_rgh |-> NoneV],
        oid)

WindTunnelOutletInit(refLevels, a, oid) ==
    BaseInit("WindTunnelOutletBoundaryCondition", "patch", refLevels,
        [T |-> Or(a.T, ZeroGradient(At(oid, "T"))),
         U |-> Or(a.U, InletOutlet(<<"'uniform (0 0 0)'", "'$internalField'">>,
                                   At(oid, "U"))),
         p |-> Or(a.p, FixedValue("'$pressure'", At(oid, "p"))),
         k |-> Or(a.k, InletOutlet(<<"'uniform $turbulentKE'", "'$internalField'">>,
                                   At(oid, "k"))),
         epsilon |-> Or(a.epsilon, InletOutlet(
                         <<"'uniform $turbulentEpsilon'", "'$internalField'">>,
                         At(oid, "epsilon"))),
         nut |-> Or(a.nut, Calculated("'0'", At(oid, "nut"))),
         alphat |-> NoneV,
         p_rgh |-> NoneV],
        oid)

WindTunnelTopAndSidesInit(refLevels, a, oid) ==
    BaseInit("WindTunnelTopAndSidesBoundaryCondition", "patch", refLevels,
        [T |-> Or(a.T, ZeroGradient(At(oid, "T"))),
         U |-> Or(a.U, Slip(At(oid, "U"))),
         p |-> Or(a.p, Slip(At(oid, "p"))),
         k |-> Or(a.k, Slip(At(oid, "k"))),
         epsilon |-> Or(a.epsilon, Slip(At(oid, "epsilon"))),
         nut |-> Calculated("'0'", At(oid, "nut")),
         alphat |-> NoneV,
         p_rgh |-> NoneV],
        oid)

\* The field keyword arguments each constructor's signature accepts.
Accepts(cls) ==
    CASE cls \in {"BoundaryCondition", "IndoorWallBoundaryCondition",
                  "FixedInletBoundaryCondition", "FixedOutletBoundaryCondition"} -> SlotSet
      [] cls \in {"WindTunnelWallBoundaryCondition", "WindTunnelOutletBoundaryCondition",
                  "WindTunnelTopAndSidesBoundaryCondition"} -> SlotSet \ {"alphat", "p_rgh"}
      [] cls = "WindTunnelGroundBoundaryCondition" -> {"T", "U", "p", "k", "epsilon"}
      [] cls = "WindTunnelInletBoundaryCondition" -> {"T", "p", "nut"}
      [] OTHER -> {}

\* ---------------------------------------------------------------- __repr__
FieldRepr(fld) == <<fld.ftype>> \o fld.args

\* The text __repr__ formats, as the tuple of its parts.
Repr(rec) ==
    CASE rec.cls = "FixedInletBoundaryCondition" ->
           <<rec.cls, rec.type, FieldRepr(rec.f.U), rec.refLevels>>
      [] rec.cls \in {"FixedOutletBoundaryCondition", "WindTunnelOutletBoundaryCondition"} ->
           <<rec.cls, rec.type, FieldRepr(rec.f.p), rec.refLevels>>
      [] rec.cls = "WindTunnelInletBoundaryCondition" ->
           <<rec.cls, rec.type, <<"Uref">> \o rec.f.U.args, rec.refLevels>>
      [] OTHER -> <<rec.cls, rec.type, <<>>, rec.refLevels>>

\* ---------------------------------------------------------------- duplicate
\* The copy of slot s: one new object per distinct object of the record
\* (deepcopy's memo keeps two slots that share an object sharing the copy).
CopyOid(rec, s, oid) ==
    oid - 1 + CHOOSE i \in DOMAIN Slots :
                  /\ rec.f[Slots[i]].oid = rec.f[s].oid
                  /\ \A j \in DOMAIN Slots : j < i => rec.f[Slots[j]].oid # rec.f[s].oid

\* deepcopy(self): same class, type and refLevels, every Field copied.
DeepCopy(rec, oid) ==
    [rec EXCEPT !.f = [s \in SlotSet |-> [rec.f[s] EXCEPT !.oid = CopyOid(rec, s, oid)]]]

\* Faulty variant of Duplicate: the record itself is returned.
Duplicate_ReturnSelf(objs, ref, oid) == [heap |-> objs, ref |-> ref]

\* duplicate(): a new object in the store and the reference to it.
Duplicate(objs, ref, oid) ==
    [heap |-> Append(objs, DeepCopy(objs[ref], oid)), ref |-> Len(objs) + 1]

\* ---------------------------------------------------------------- inputs
\* A Field object the caller built.
FieldIn == FixedValue("'(1 0 0)'", 0)

GoodDict == DictV(<<<<"type", "fixedValue">>, <<"value", "1">>>>)

BadDict == DictV(<<<<"value", "1">>>>)

GoodStr == StrV(<<"s", "l", "i", "p">>)

BadStr == StrV(<<"?">>)

\* An object of an unrelated type.
ObjV == [k |-> "object"]

\* What a caller passes for a field, besides None.
Given == {IntV(0), StrV(<<>>), DictV(<<>>), FieldIn, GoodDict, BadDict, GoodStr, BadStr, ObjV}

\* What a caller passes for refLevels.
RefInputs ==
    {NoneV, IntV(0), IntV(5), ListV(<<>>),
     TupleV(<<IntV(2), IntV(3)>>),
     ListV(<<StrV(<<"2">>), StrV(<<"3">>)>>),
     ListV(<<StrV(<<"1", "2">>), IntV(3)>>),
     ListV(<<IntV(1), IntV(2), IntV(3)>>),
     ListV(<<IntV(4)>>),
     ListV(<<StrV(<<"a">>), IntV(1)>>),
     ListV(<<NoneV, IntV(1)>>),
     StrV(<<"2", "3">>)}

\* The atmospheric-boundary-layer parameter sets a caller passes.
Abls == {"ablA", "ablB"}

\* The keyword-argument sets with at most n of the accepted fields supplied.
RECURSIVE ArgSets(_, _)
ArgSets(acc, n) ==
    IF n = 0
    THEN {AllNone}
    ELSE ArgSets(acc, n - 1) \cup
         {[a EXCEPT ![s] = x] : a \in ArgSets(acc, n - 1), s \in acc, x \in Given}

\* ---------------------------------------------------------------- state
NoCall ==
    [op |-> "none", cls |-> "", bcType |-> "", abl |-> "", refLevels |-> NoneV,
     args |-> AllNone, h |-> 0, slot |-> "", val |-> NoneV,
     ok |-> TRUE, exc |-> NoExc, ret |-> NoField]

\* The record a handle of the caller refers to.
Rec(h) == heap[handles[h]]

\* Before any call: no record exists.
Init ==
    /\ heap = <<>>
    /\ handles = <<>>
    /\ last = NoCall
    /\ nextOid = 1
    /\ nsets = 0

\* No call has been made yet.
Fresh == last.op = "none" /\ handles = <<>>

\* A constructor call of class cls returned or raised res.
Construct(cls, bcType, abl, refLevels, a, res) ==
    /\ heap' = IF res.ok THEN Append(heap, res.rec) ELSE heap
    /\ handles' = IF res.ok THEN Append(handles, Len(heap) + 1) ELSE handles
    /\ nextOid' = IF res.ok THEN nextOid + Len(Slots) ELSE nextOid
    /\ last' = [NoCall EXCEPT !.op = "new", !.cls = cls, !.bcType = bcType, !.abl = abl,
                              !.refLevels = refLevels, !.args = a,
                              !.h = IF res.ok THEN Len(handles) + 1 ELSE 0,
                              !.ok = res.ok, !.exc = res.exc]
    /\ UNCHANGED nsets

NewBoundaryCondition ==
    /\ Fresh
    /\ \E bcType \in {"patch", "wall"}, rl \in RefInputs,
       a \in ArgSets(Accepts("BoundaryCondition"), MaxArgs) :
        Construct("BoundaryCondition", bcType, "", rl, a,
                  BaseInit("BoundaryCondition", bcType, rl, a, nextOid))

NewBoundingBox ==
    /\ Fresh
    /\ \E rl \in RefInputs :
        Construct("BoundingBoxBoundaryCondition", "", "", rl, AllNone,
                  BoundingBoxInit(rl, nextOid))

NewEmpty ==
    /\ Fresh
    /\ \E rl \in RefInputs :
        Construct("EmptyBoundaryCondition", "", "", rl, AllNone, EmptyInit(rl, nextOid))

NewIndoorWall ==
    /\ Fresh
    /\ \E rl \in RefInputs, a \in ArgSets(Accepts("IndoorWallBoundaryCondition"), MaxArgs) :
        Construct("IndoorWallBoundaryCondition", "", "", rl, a,
                  IndoorWallInit(rl, a, nextOid))

NewFixedInlet ==
    /\ Fresh
    /\ \E rl \in RefInputs, a \in ArgSets(Accepts("FixedInletBoundaryCondition"), MaxArgs) :
        Construct("FixedInletBoundaryCondition", "", "", rl, a,
                  FixedInletInit(rl, a, nextOid))

NewFixedOutlet ==
    /\ Fresh
    /\ \E rl \in RefInputs, a \in ArgSets(Accepts("FixedOutletBoundaryCondition"), MaxArgs) :
        Construct("FixedOutletBoundaryCondition", "", "", rl, a,
                  FixedOutletInit(rl, a, nextOid))

NewWindTunnelWall ==
    /\ Fresh
    /\ \E rl \in RefInputs, a \in ArgSets(Accepts("WindTunnelWallBoundaryCondition"), MaxArgs) :
        Construct("WindTunnelWallBoundaryCondition", "", "", rl, a,
                  WindTunnelWallInit(rl, a, nextOid))

NewWindTunnelGround ==
    /\ Fresh
    /\ \E abl \in Abls, rl \in RefInputs,
       a \in ArgSets(Accepts("WindTunnelGroundBoundaryCondition"), MaxArgs) :
        Construct("WindTunnelGroundBoundaryCondition", "", abl, rl, a,
                  WindTunnelGroundInit(abl, rl, a, nextOid))

NewWindTunnelInlet ==
    /\ Fresh
    /\ \E abl \in Abls, rl \in RefInputs,
       a \in ArgSets(Accepts("WindTunnelInletBoundaryCondition"), MaxArgs) :
        Construct("WindTunnelInletBoundaryCondition", "", abl, rl, a,
                  WindTunnelInletInit(abl, rl, a, nextOid))

NewWindTunnelOutlet ==
    /\ Fresh
    /\ \E rl \in RefInputs, a \in ArgSets(Accepts("WindTunnelOutletBoundaryCondition"), MaxArgs) :
        Construct("WindTunnelOutletBoundaryCondition", "", "", rl, a,
                  WindTunnelOutletInit(rl, a, nextOid))

NewWindTunnelTopAndSides ==
    /\ Fresh
    /\ \E rl \in RefInputs,
       a \in ArgSets(Accepts("WindTunnelTopAndSidesBoundaryCondition"), MaxArgs) :
        Construct("WindTunnelTopAndSidesBoundaryCondition", "", "", rl, a,
                  WindTunnelTopAndSidesInit(rl, a, nextOid))

\* BoundaryCondition.tryGetField(f) called on its own.
CallTryGetField ==
    /\ Fresh
    /\ \E f \in Given \cup {NoneV} :
        /\ last' = [NoCall EXCEPT !.op = "tryGetField", !.val = f,
                                  !.ok = TryGetField(f, nextOid).ok,
                                  !.exc = TryGetField(f, nextOid).exc,
                                  !.ret = TryGetField(f, nextOid).val]
        /\ nextOid' = IF TryGetField(f, nextOid).ok THEN nextOid + 1 ELSE nextOid
        /\ UNCHANGED <<heap, handles, nsets>>

Next ==
    \/ NewBoundaryCondition
    \/ NewBoundingBox
    \/ NewEmpty
    \/ NewIndoorWall
    \/ NewFixedInlet
    \/ NewFixedOutlet
    \/ NewWindTunnelWall
    \/ NewWindTunnelGround
    \/ NewWindTunnelInlet
    \/ NewWindTunnelOutlet
    \/ NewWindTunnelTopAndSides
    \/ CallTryGetField

\* One constructor call, or one tryGetField call, on every input.
Spec == Init /\ [][Next]_vars

\* ---------------------------------------------------------------- life of a record
\* The records the constructors return when every argument is omitted.
Defaults ==
    {BaseInit("BoundaryCondition", "patch", NoneV, AllNone, 1),
     BoundingBoxInit(NoneV, 1), EmptyInit(NoneV, 1),
     IndoorWallInit(NoneV, AllNone, 1), FixedInletInit(NoneV, AllNone, 1),
     FixedOutletInit(NoneV, AllNone, 1), WindTunnelWallInit(NoneV, AllNone, 1),
     WindTunnelOutletInit(NoneV, AllNone, 1),
     WindTunnelTopAndSidesInit(NoneV, AllNone, 1)}
    \cup {WindTunnelGroundInit(abl, NoneV, AllNone, 1) : abl \in Abls}
    \cup {WindTunnelInletInit(abl, NoneV, AllNone, 1) : abl \in Abls}

\* The base records built from a (2, 3) tuple and one supplied temperature.
Supplied ==
    {BaseInit("BoundaryCondition", "wall", TupleV(<<IntV(2), IntV(3)>>),
              [AllNone EXCEPT !.T = x], 1) : x \in Given}

\* After one successful construction: any class with every argument omitted,
\* or the base class with a temperature supplied.
InitLife ==
    /\ \E res \in Defaults \cup Supplied : res.ok /\ heap = <<res.rec>>
    /\ handles = <<1>>
    /\ last = NoCall
    /\ nextOid = 1 + Len(Slots)
    /\ nsets = 0

\* record.<s> = x through the property setter of slot s.
SetField ==
    /\ nsets < MaxSets
    /\ \E h \in DOMAIN handles, s \in SlotSet, x \in Given \cup {NoneV} :
        LET res == SetSlot(Rec(h), s, x, nextOid)
        IN /\ heap' = [heap EXCEPT ![handles[h]] = res.rec]
           /\ nextOid' = IF res.ok THEN nextOid + 1 ELSE nextOid
           /\ last' = [NoCall EXCEPT !.op = "set", !.h = h, !.slot = s, !.val = x,
                                     !.ok = res.ok, !.exc = res.exc]
           /\ nsets' = nsets + 1
           /\ UNCHANGED handles

\* record.type = t: a plain attribute.
SetType ==
    /\ nsets < MaxSets
    /\ \E h \in DOMAIN handles, t \in {"patch", "wall"} :
        /\ heap' = [heap EXCEPT ![handles[h]].type = t]
        /\ last' = [NoCall EXCEPT !.op = "setattr", !.h = h, !.slot = "type"]
        /\ nsets' = nsets + 1
        /\ UNCHANGED <<handles, nextOid>>

\* record.refLevels = rl: a plain attribute.
SetRefLevels ==
    /\ nsets < MaxSets
    /\ \E h \in DOMAIN handles, rl \in {<<1, 1>>, <<2, 3>>} :
        /\ heap' = [heap EXCEPT ![handles[h]].refLevels = rl]
        /\ last' = [NoCall EXCEPT !.op = "setattr", !.h = h, !.slot = "refLevels"]
        /\ nsets' = nsets + 1
        /\ UNCHANGED <<handles, nextOid>>

\* copy = record.duplicate()
CallDuplicate ==
    /\ Len(handles) < MaxRecs
    /\ \E h \in DOMAIN handles :
        LET res == Duplicate(heap, handles[h], nextOid)
        IN /\ heap' = res.heap
           /\ handles' = Append(handles, res.ref)
           /\ nextOid' = nextOid + Len(Slots)
           /\ last' = [NoCall EXCEPT !.op = "duplicate", !.h = h]
           /\ UNCHANGED nsets

NextLife ==
    \/ SetField
    \/ SetType
    \/ SetRefLevels
    \/ CallDuplicate

\* A constructed record, its reassignments and its duplicates.
SpecLife == InitLife /\ [][NextLife]_vars

\* ---------------------------------------------------------------- claims
IsField(x) == x.k = "Field" /\ x.ftype # ""

\* Two Field objects with the same class and arguments (identity aside).
SameField(x, y) == IsField(x) /\ IsField(y) /\ x.ftype = y.ftype /\ x.args = y.args

IsZeroGradient(x) == IsField(x) /\ x.ftype = "ZeroGradient" /\ x.args = <<>>

\* The record the last constructor call returned.
NewRec == Rec(last.h)

\* x cannot be interpreted as a Field: no Field instance, and Field.fromDict
\* (a mapping) or Field.fromString (anything else) rejects it.
Uninterpretable(x) ==
    /\ x.k # "Field"
    /\ IF x.k = "dict" THEN ~FromDict(x, 0).ok ELSE ~FromString(x, 0).ok

\* The InvalidFieldSpec error: tryGetField's ValueError naming the input x.
IsInvalidFieldSpec(e, x) == e = Exc("ValueError", "tryGetField", x)

\* refLevels cannot be coerced: not iterable, or holding an element int() rejects.
NotCoercible(x) == x.k # "None" /\ (~Iterable(x) \/ FirstBad(Elements(x)) # 0)

\* The constructors that pass their refLevels argument on to the base.
Forwarding == last.cls \notin {"BoundingBoxBoundaryCondition", "EmptyBoundaryCondition"}

\* C1: in every reachable state of a constructed record, and after every
\* reassignment of T, U, p, k, epsilon, nut, alphat or p_rgh, each of the
\* eight slots of every record holds a Field instance.
C1_SlotsHoldFields ==
    \A h \in DOMAIN handles : \A s \in SlotSet : IsField(Rec(h).f[s])

\* C1 witness: a slot was reassigned from a string and the setter returned.
C1_Witness ==
    /\ last.op = "set" /\ last.ok /\ last.val = GoodStr
    /\ Rec(last.h).f[last.slot].args = <<"fromString", "s", "l", "i", "p">>

\* C2 as claimed: whenever construction succeeds, whatever the length of the
\* refLevels input, refLevels is a tuple of exactly two integers; omitted
\* levels on the base type give (1, 1) and ["2", "3"] gives (2, 3).
C2_AlwaysPair ==
    (last.op = "new" /\ last.ok) =>
        /\ Len(NewRec.refLevels) = 2
        /\ \A i \in DOMAIN NewRec.refLevels : NewRec.refLevels[i] \in Int
        /\ (last.cls = "BoundaryCondition" /\ last.refLevels = NoneV)
               => NewRec.refLevels = <<1, 1>>
        /\ (Forwarding /\ last.refLevels = ListV(<<StrV(<<"2">>), StrV(<<"3">>)>>))
               => NewRec.refLevels = <<2, 3>>

\* C3 as claimed: a field input that cannot be interpreted as a Field, given
\* to tryGetField or to a constructor (whose refLevels are fine), makes the
\* call fail with the InvalidFieldSpec error naming it, and no record exists.
C3_InvalidFieldSpec ==
    /\ (last.op = "tryGetField" /\ Uninterpretable(last.val))
           => ~last.ok /\ IsInvalidFieldSpec(last.exc, last.val)
    /\ (last.op = "new" /\ RefLevelsOf(last.refLevels).ok) =>
           \A s \in Accepts(last.cls) :
               (last.args[s] # NoneV /\ Uninterpretable(last.args[s])) =>
                   /\ ~last.ok
                   /\ IsInvalidFieldSpec(last.exc, last.args[s])
                   /\ heap = <<>>

\* C4 as claimed: a refLevels input that cannot be coerced makes construction
\* fail with the dedicated InvalidRefinementLevel error, and no record exists.
C4_DedicatedError ==
    (last.op = "new" /\ NotCoercible(last.refLevels)) =>
        /\ ~last.ok
        /\ last.exc.type = "InvalidRefinementLevel"
        /\ heap = <<>>

\* C4 amended: in every constructor that forwards refLevels, a truthy input
\* that cannot be coerced makes construction fail with the built-in exception
\* of the step that failed -- TypeError for a value that is not iterable or an
\* element int() cannot take, ValueError for a string int() cannot parse --
\* and no record exists; a falsy input (0) does not fail and gives (1, 1).
C4_BuiltinError ==
    (last.op = "new" /\ Forwarding /\ NotCoercible(last.refLevels)) =>
        IF Truthy(last.refLevels)
        THEN /\ ~last.ok
             /\ heap = <<>> /\ handles = <<>>
             /\ last.exc.type \in {"TypeError", "ValueError"}
             /\ last.exc.site \in {"iter", "int"}
             /\ ~Iterable(last.refLevels)
                    => last.exc = Exc("TypeError", "iter", last.refLevels)
             /\ Iterable(last.refLevels) =>
                    /\ last.exc.site = "int"
                    /\ last.exc.type = "ValueError" <=> last.exc.arg.k = "str"
        ELSE last.ok => NewRec.refLevels = <<1, 1>>

\* C4 witness: a list holding a string int() rejects made a constructor raise
\* ValueError.
C4_Witness ==
    /\ last.op = "new" /\ ~last.ok
    /\ last.refLevels = ListV(<<StrV(<<"a">>), IntV(1)>>)
    /\ last.exc = Exc("ValueError", "int", StrV(<<"a">>))

\* The copy the last duplicate() call returned matches its source: another
\* object of the same class with the same type, refLevels, field values and
\* textual representation, sharing no Field object with the source.
DuplicateMatches ==
    LET src == Rec(last.h)
        cp == Rec(Len(handles))
    IN /\ handles[Len(handles)] # handles[last.h]
       /\ cp.cls = src.cls /\ cp.type = src.type /\ cp.refLevels = src.refLevels
       /\ \A s \in SlotSet : SameField(cp.f[s], src.f[s])
       /\ Repr(cp) = Repr(src)
       /\ \A s, t \in SlotSet : cp.f[s].oid # src.f[t].oid

\* C5: duplicate() returns a record of the same class with the same kind,
\* refLevels and field values (equal representation), and a reassignment of a
\* slot, of type or of refLevels through one handle leaves the record of every
\* other handle unchanged.
C5_DuplicateIndependent ==
    [][/\ last'.op = "duplicate" => DuplicateMatches'
       /\ last'.op \in {"set", "setattr"} =>
              \A g \in DOMAIN handles : g # last'.h => Rec(g)' = Rec(g)]_vars

\* C5 witness: after a duplicate, a slot of one of the two records was
\* reassigned and the two now differ in that slot.
C5_Witness ==
    /\ Len(handles) = 2 /\ last.op = "set" /\ last.ok
    /\ ~SameField(Rec(1).f[last.slot], Rec(2).f[last.slot])

\* C6 as claimed: a specialization constructor stores the coercion of every
\* valid field argument its caller supplies; a default is substituted only
\* for an omitted argument.
C6_SuppliedWins ==
    (last.op = "new" /\ last.ok /\ last.cls # "BoundaryCondition") =>
        \A s \in Accepts(last.cls) :
            (last.args[s] # NoneV /\ TryGetField(last.args[s], 0).ok) =>
                SameField(NewRec.f[s], TryGetField(last.args[s], 0).val)

\* C7 as claimed: a setter (and the base constructor) stores zero-gradient
\* for a null input and passes every other input, 0, "" and {} included,
\* through tryGetField: its Field is stored, its exception is the outcome.
C7_OnlyNullDefaults ==
    /\ last.op = "set" =>
           IF last.val = NoneV
           THEN last.ok /\ IsZeroGradient(Rec(last.h).f[last.slot])
           ELSE /\ last.ok = TryGetField(last.val, 0).ok
                /\ last.ok => SameField(Rec(last.h).f[last.slot],
                                        TryGetField(last.val, 0).val)
                /\ ~last.ok => last.exc = TryGetField(last.val, 0).exc
    /\ (last.op = "new" /\ last.cls = "BoundaryCondition" /\ last.ok) =>
           \A s \in SlotSet :
               IF last.args[s] = NoneV
               THEN IsZeroGradient(NewRec.f[s])
               ELSE SameField(NewRec.f[s], TryGetField(last.args[s], 0).val)

\* C8: BoundingBoxBoundaryCondition(refLevels), for every refLevels, succeeds
\* with type wall, refLevels (1, 1) and all eight slots zero-gradient.
C8_BoundingBox ==
    (last.op = "new" /\ last.cls = "BoundingBoxBoundaryCondition") =>
        /\ last.ok
        /\ NewRec.cls = "BoundingBoxBoundaryCondition"
        /\ NewRec.type = "wall"
        /\ NewRec.refLevels = <<1, 1>>
        /\ \A s \in SlotSet : IsZeroGradient(NewRec.f[s])

\* C8 witness: a bounding box was built from a refLevels input no int pair
\* can come from.
C8_Witness ==
    /\ last.op = "new" /\ last.cls = "BoundingBoxBoundaryCondition" /\ last.ok
    /\ last.refLevels = ListV(<<StrV(<<"a">>), IntV(1)>>)

\* C9: IndoorWallBoundaryCondition() with every argument omitted has type
\* wall, U = FixedValue (0 0 0), p zero-gradient, k = KqRWallFunction 0.1,
\* epsilon = EpsilonWallFunction 0.01, nut = NutkWallFunction 0.01 and
\* refLevels (1, 1).
C9_IndoorWallDefaults ==
    (/\ last.op = "new" /\ last.cls = "IndoorWallBoundaryCondition"
     /\ last.args = AllNone /\ last.refLevels = NoneV) =>
        /\ last.ok
        /\ NewRec.type = "wall"
        /\ NewRec.refLevels = <<1, 1>>
        /\ SameField(NewRec.f.U, FixedValue("'(0 0 0)'", 0))
        /\ IsZeroGradient(NewRec.f.p)
        /\ SameField(NewRec.f.k, KqRWallFunction(<<"'0.1'">>, 0))
        /\ SameField(NewRec.f.epsilon, EpsilonWallFunction(<<"0.01">>, 0))
        /\ SameField(NewRec.f.nut, NutkWallFunction(<<"0.01">>, 0))

\* C9 witness: an indoor wall was built with every argument omitted.
C9_Witness ==
    /\ last.op = "new" /\ last.cls = "IndoorWallBoundaryCondition" /\ last.ok
    /\ last.args = AllNone /\ last.refLevels = NoneV
    /\ NewRec.cls = "IndoorWallBoundaryCondition"

\* C10: a slot reassignment that raises leaves every record as it was; one
\* that returns changes nothing but the targeted slot of the targeted record.
C10_SetterFrame ==
    [][last'.op = "set" =>
          /\ handles' = handles
          /\ ~last'.ok => heap' = heap
          /\ last'.ok =>
                 heap' = [heap EXCEPT ![handles[last'.h]].f[last'.slot] =
                                          heap'[handles[last'.h]].f[last'.slot]]]_vars

\* C10 witness: a reassignment raised on a slot that held something other
\* than zero-gradient.
C10_Witness ==
    /\ last.op = "set" /\ ~last.ok
    /\ IsInvalidFieldSpec(last.exc, last.val)
    /\ ~IsZeroGradient(Rec(last.h).f[last.slot])

====
